---- MODULE Spec2Model ----
(***************************************************************************)
(* A model of two layout rules of eslint-stylistic:                        *)
(*   no-multiple-empty-lines  (src/unnamed/part_000)                       *)
(*   no-tabs                  (src/packages/eslint-plugin-js/rules/no-tabs)*)
(*                                                                         *)
(* A source text is a sequence of characters.  Four kinds of character are *)
(* told apart for no-multiple-empty-lines:                                 *)
(*   "a"   any non-whitespace character of code or of a literal's content  *)
(*   "sp"  a whitespace character that is no line terminator               *)
(*   "nl"  a line terminator                                               *)
(*   "bt"  a backtick, opening or closing a template literal               *)
(* and for no-tabs "tab", the horizontal tab, replaces "bt".               *)
(***************************************************************************)
EXTENDS Integers, Sequences, FiniteSets, TLC

VARIABLES
    text,                  \* sourceCode.text of the current pass
    options,               \* context.options of no-multiple-empty-lines
    pc,                    \* where the lint of the current pass stands
    max, maxEOF, maxBOF,   \* the closure variables of create()
    allLines,              \* the closure constant allLines of create()
    templateLiteralLines,  \* the closure set templateLiteralLines
    visited,               \* TemplateLiteral nodes the traversal has visited
    reports,               \* what context.report received in this pass
    pass,                  \* the number of the current scan-then-fix pass
    history,               \* text and reports of the passes before this one
    tabOptions,            \* context.options of no-tabs
    tpc,                   \* where no-tabs stands
    lineIndex,             \* forEach index of the line no-tabs is on
    lastIndex,             \* tabRegex.lastIndex (the regex is global)
    tabReports             \* what context.report received from no-tabs

mainVars == <<options, pc, max, maxEOF, maxBOF, allLines, templateLiteralLines,
              visited, reports, pass, history>>
tabVars == <<tabOptions, tpc, lineIndex, lastIndex, tabReports>>
vars == <<text, mainVars, tabVars>>

(***************************************************************************)
(* Bounds of the model                                                     *)
(***************************************************************************)
MaxLen == 5
MaxThreshold == 1
MaxPasses == 2

Min(x, y) == IF x < y THEN x ELSE y
Max0(x) == IF x < 0 THEN 0 ELSE x

TextsOver(alphabet) == UNION {[1..n -> alphabet] : n \in 0..MaxLen}

(***************************************************************************)
(* SourceModel: lines and offsets of a text                                *)
(***************************************************************************)
\* a failed location lookup (getIndexFromLoc throws a RangeError)
RangeError == -1

IsWhitespace(c) == c \in {"sp", "tab", "nl"}

\* the offset (0-based) at which each line starts
LineStartIndices(t) ==
    LET F[i \in 0..Len(t)] ==
            IF i = 0 THEN <<0>>
            ELSE IF t[i] = "nl" THEN Append(F[i - 1], i) ELSE F[i - 1]
    IN  F[Len(t)]

\* sourceCode.lines: the text split at its line terminators
SourceLines(t) ==
    LET s == LineStartIndices(t)
    IN  [k \in 1..Len(s) |->
            SubSeq(t, s[k] + 1, IF k < Len(s) THEN s[k + 1] - 1 ELSE Len(t))]

\* sourceCode.getIndexFromLoc({ line, column })
GetIndexFromLoc(t, line, column) ==
    LET s == LineStartIndices(t)
    IN  IF line <= 0 \/ line > Len(s) THEN RangeError
        ELSE LET lineStartIndex == s[line]
                 lineEndIndex == IF line = Len(s) THEN Len(t) ELSE s[line + 1]
                 positionIndex == lineStartIndex + column
             IN  IF \/ line = Len(s) /\ positionIndex > lineEndIndex
                    \/ line < Len(s) /\ positionIndex >= lineEndIndex
                 THEN RangeError
                 ELSE positionIndex

\* text.slice(from, to) with 0-based offsets, end exclusive
Slice(t, from, to) == SubSeq(t, from + 1, to)

(***************************************************************************)
(* The parser's view: template literals                                    *)
(***************************************************************************)
\* the 1-based positions of the backticks of a text, in order
BacktickPositions(t) ==
    LET F[i \in 0..Len(t)] ==
            IF i = 0 THEN <<>>
            ELSE IF t[i] = "bt" THEN Append(F[i - 1], i) ELSE F[i - 1]
    IN  F[Len(t)]

\* a text with an unclosed template literal does not parse, and no rule runs
Parses(t) == Len(BacktickPositions(t)) % 2 = 0

\* the 1-based line of the character at 1-based position p
LineOfPosition(t, p) == 1 + Cardinality({i \in 1..(p - 1) : t[i] = "nl"})

\* loc of the one quasi of each template literal, in source order (literals
\* without ${} expressions: a quasi then runs from backtick to backtick)
Quasis(t) ==
    LET b == BacktickPositions(t)
    IN  [k \in 1..(Len(b) \div 2) |->
            [start |-> LineOfPosition(t, b[2 * k - 1]),
             end   |-> LineOfPosition(t, b[2 * k])]]

(***************************************************************************)
(* no-multiple-empty-lines                                                 *)
(***************************************************************************)
OptionKeys == {"max", "maxEOF", "maxBOF"}
OptionObjects == UNION {[D -> 0..MaxThreshold] : D \in SUBSET OptionKeys}
OptionArrays == {<<>>} \cup {<<o>> : o \in OptionObjects}

\* meta.schema: at most one item, an object with max required
SchemaValid(opts) ==
    /\ Len(opts) <= 1
    /\ \A i \in 1..Len(opts) :
          /\ DOMAIN opts[i] \subseteq OptionKeys
          /\ "max" \in DOMAIN opts[i]
          /\ \A k \in DOMAIN opts[i] : opts[i][k] \in Int /\ opts[i][k] >= 0

DefaultMax == 2

HasOptions(opts) == Len(opts) > 0

CreateMax(opts) == IF HasOptions(opts) THEN opts[1].max ELSE DefaultMax

CreateMaxEOF(opts) ==
    IF HasOptions(opts)
    THEN IF "maxEOF" \in DOMAIN opts[1] THEN opts[1].maxEOF ELSE opts[1].max
    ELSE DefaultMax

\* a variant: a missing maxBOF falls back to the default, not to max
CreateMaxBOFDefault(opts) ==
    IF HasOptions(opts) /\ "maxBOF" \in DOMAIN opts[1]
    THEN opts[1].maxBOF
    ELSE DefaultMax

CreateMaxBOF(opts) ==
    IF HasOptions(opts)
    THEN IF "maxBOF" \in DOMAIN opts[1] THEN opts[1].maxBOF ELSE opts[1].max
    ELSE DefaultMax

\* a variant: the final empty line is kept
AllLinesUntrimmed(t) == SourceLines(t)

\* Swallow the final newline
AllLines(t) ==
    LET lines == SourceLines(t)
    IN  IF Len(lines[Len(lines)]) = 0
        THEN SubSeq(lines, 1, Len(lines) - 1)
        ELSE lines

RECURSIVE TrimStart(_)
TrimStart(s) ==
    IF Len(s) > 0 /\ IsWhitespace(Head(s)) THEN TrimStart(Tail(s)) ELSE s

RECURSIVE TrimEnd(_)
TrimEnd(s) ==
    IF Len(s) > 0 /\ IsWhitespace(s[Len(s)])
    THEN TrimEnd(SubSeq(s, 1, Len(s) - 1))
    ELSE s

\* String.prototype.trim
Trim(s) == TrimEnd(TrimStart(s))

\* a variant: only the line the quasi starts on is added
IgnoredLinesStartOnly(literalPart) == {literalPart.start}

\* the lines one quasi adds to templateLiteralLines
IgnoredLines(literalPart) ==
    {ignoredLine \in literalPart.start..(literalPart.end - 1) : TRUE}

\* the first reduce: the numbers of the non-empty lines
NonEmptyLineNumbers(lines, ignored) ==
    LET F[i \in 0..Len(lines)] ==
            IF i = 0 THEN <<>>
            ELSE IF Len(Trim(lines[i])) > 0 \/ i \in ignored
                 THEN Append(F[i - 1], i)
                 ELSE F[i - 1]
    IN  F[Len(lines)]

\* .concat(allLines.length + 1)
LineNumbers(lines, ignored) ==
    NonEmptyLineNumbers(lines, ignored) \o <<Len(lines) + 1>>

MessageIdOf(lastLineNumber, lineNumber) ==
    IF lastLineNumber = 0 THEN "blankBeginningOfFile"
    ELSE IF lineNumber = Len(allLines) + 1 THEN "blankEndOfFile"
    ELSE "consecutiveBlank"

\* a variant: the end of file is tested before the beginning of file
MaxAllowedOfEOFFirst(lastLineNumber, lineNumber) ==
    IF lineNumber = Len(allLines) + 1 THEN maxEOF
    ELSE IF lastLineNumber = 0 THEN maxBOF
    ELSE max

MaxAllowedOf(lastLineNumber, lineNumber) ==
    IF lastLineNumber = 0 THEN maxBOF
    ELSE IF lineNumber = Len(allLines) + 1 THEN maxEOF
    ELSE max

\* a variant: >= in place of >
TooManyOrEqual(lastLineNumber, lineNumber, maxAllowed) ==
    lineNumber - lastLineNumber - 1 >= maxAllowed

TooMany(lastLineNumber, lineNumber, maxAllowed) ==
    lineNumber - lastLineNumber - 1 > maxAllowed

LocStartLine(lastLineNumber, maxAllowed) == lastLineNumber + maxAllowed + 1

\* a variant: the removal starts at the first line in excess
RangeStartLineAtExcess(lastLineNumber, maxAllowed) ==
    lastLineNumber + maxAllowed + 1

RangeStartLine(lastLineNumber, maxAllowed) == lastLineNumber + 1

FixRangeStart(lastLineNumber, maxAllowed) ==
    GetIndexFromLoc(text, RangeStartLine(lastLineNumber, maxAllowed), 0)

\* a variant: the removal runs up to the next non-empty line
FixRangeEndWholeRun(lineNumber, maxAllowed) ==
    IF lineNumber <= Len(allLines)
    THEN GetIndexFromLoc(text, lineNumber, 0)
    ELSE Len(text)

FixRangeEnd(lineNumber, maxAllowed) ==
    LET lineNumberAfterRemovedLines == lineNumber - maxAllowed
    IN  IF lineNumberAfterRemovedLines <= Len(allLines)
        THEN GetIndexFromLoc(text, lineNumberAfterRemovedLines, 0)
        ELSE Len(text)

\* the body of the second reduce's callback: what it reports for one pair
ReportsOfPair(lastLineNumber, lineNumber) ==
    LET messageId == MessageIdOf(lastLineNumber, lineNumber)
        maxAllowed == MaxAllowedOf(lastLineNumber, lineNumber)
    IN  IF TooMany(lastLineNumber, lineNumber, maxAllowed)
        THEN << [messageId |-> messageId,
                 loc |-> [start |-> [line |-> LocStartLine(lastLineNumber, maxAllowed),
                                     column |-> 0],
                          end |-> [line |-> lineNumber, column |-> 0]],
                 data |-> [max |-> maxAllowed,
                           pluralizedLines |->
                               IF maxAllowed = 1 THEN "line" ELSE "lines"],
                 fix |-> [range |-> << FixRangeStart(lastLineNumber, maxAllowed),
                                       FixRangeEnd(lineNumber, maxAllowed) >>,
                          text |-> <<>>]] >>
        ELSE <<>>

\* the second reduce, from lastLineNumber = 0
ReduceReports(numbers) ==
    LET F[k \in 0..Len(numbers)] ==
            IF k = 0 THEN <<>>
            ELSE F[k - 1] \o
                 ReportsOfPair(IF k = 1 THEN 0 ELSE numbers[k - 1], numbers[k])
    IN  F[Len(numbers)]

(***************************************************************************)
(* FixEngine: the fixes of one pass, applied against the pre-fix text      *)
(***************************************************************************)
FixBefore(f, g) ==
    \/ f.range[1] < g.range[1]
    \/ f.range[1] = g.range[1] /\ f.range[2] <= g.range[2]

RECURSIVE SortFixes(_)
SortFixes(fixes) ==
    IF Len(fixes) = 0 THEN <<>>
    ELSE LET k == CHOOSE i \in 1..Len(fixes) :
                      \A j \in 1..Len(fixes) :
                          FixBefore(fixes[i], fixes[j]) /\ (FixBefore(fixes[j], fixes[i]) => i <= j)
         IN  <<fixes[k]>> \o
             SortFixes([j \in 1..(Len(fixes) - 1) |->
                           IF j < k THEN fixes[j] ELSE fixes[j + 1]])

\* the output text; a fix that overlaps or touches the one before it is left out
ApplyFixesTo(t, fixes) ==
    LET sorted == SortFixes(fixes)
        NegativeInfinity == -2
        F[k \in 0..Len(sorted)] ==
            IF k = 0 THEN [output |-> <<>>, lastPos |-> NegativeInfinity]
            ELSE LET start == sorted[k].range[1]
                     end == sorted[k].range[2]
                     before == F[k - 1]
                 IN  IF before.lastPos >= start \/ start > end
                     THEN before
                     ELSE [output |-> before.output
                                        \o Slice(t, Max0(before.lastPos), Max0(start))
                                        \o sorted[k].text,
                           lastPos |-> end]
        last == F[Len(sorted)]
    IN  last.output \o Slice(t, Max0(last.lastPos), Len(t))

(***************************************************************************)
(* The lint of no-multiple-empty-lines as a state machine                  *)
(***************************************************************************)
MainChars == {"a", "sp", "nl", "bt"}

TabIdle ==
    /\ tabOptions = <<>>
    /\ tpc = "idle"
    /\ lineIndex = 0
    /\ lastIndex = 0
    /\ tabReports = <<>>

Init ==
    /\ text \in {t \in TextsOver(MainChars) : Parses(t)}
    /\ options \in OptionArrays
    /\ pc = "config"
    /\ max = 0 /\ maxEOF = 0 /\ maxBOF = 0
    /\ allLines = <<>>
    /\ templateLiteralLines = {}
    /\ visited = 0
    /\ reports = <<>>
    /\ pass = 1
    /\ history = <<>>
    /\ TabIdle

\* the options do not match meta.schema: the lint fails before create()
RejectOptions ==
    /\ pc = "config"
    /\ ~SchemaValid(options)
    /\ pc' = "configError"
    /\ UNCHANGED <<text, options, max, maxEOF, maxBOF, allLines,
                   templateLiteralLines, visited, reports, pass, history, tabVars>>

\* create(context)
Create ==
    /\ pc = "config"
    /\ SchemaValid(options)
    /\ max' = CreateMax(options)
    /\ maxEOF' = CreateMaxEOF(options)
    /\ maxBOF' = CreateMaxBOF(options)
    /\ allLines' = AllLines(text)
    /\ templateLiteralLines' = {}
    /\ visited' = 0
    /\ reports' = <<>>
    /\ pc' = "traverse"
    /\ UNCHANGED <<text, options, pass, history, tabVars>>

\* TemplateLiteral(node), for the next template literal of the traversal
TemplateLiteral ==
    /\ pc = "traverse"
    /\ visited < Len(Quasis(text))
    /\ templateLiteralLines' =
           templateLiteralLines \cup IgnoredLines(Quasis(text)[visited + 1])
    /\ visited' = visited + 1
    /\ UNCHANGED <<text, options, pc, max, maxEOF, maxBOF, allLines, reports,
                   pass, history, tabVars>>

\* 'Program:exit'(node), once every node has been visited
ProgramExit ==
    /\ pc = "traverse"
    /\ visited = Len(Quasis(text))
    /\ reports' = ReduceReports(LineNumbers(allLines, templateLiteralLines))
    /\ pc' = "reported"
    /\ UNCHANGED <<text, options, max, maxEOF, maxBOF, allLines,
                   templateLiteralLines, visited, pass, history, tabVars>>

\* the fixes of the pass are applied and the corrected text is linted again
ApplyFixes ==
    /\ pc = "reported"
    /\ Len(reports) > 0
    /\ pass < MaxPasses
    /\ text' = ApplyFixesTo(text, [k \in 1..Len(reports) |-> reports[k].fix])
    /\ history' = Append(history, [text |-> text, reports |-> reports])
    /\ pass' = pass + 1
    /\ pc' = "config"
    /\ UNCHANGED <<options, max, maxEOF, maxBOF, allLines, templateLiteralLines,
                   visited, reports, tabVars>>

Next ==
    \/ RejectOptions
    \/ Create
    \/ TemplateLiteral
    \/ ProgramExit
    \/ ApplyFixes

Spec == Init /\ [][Next]_vars

(***************************************************************************)
(* no-tabs                                                                 *)
(***************************************************************************)
TabChars == {"a", "sp", "tab", "nl"}

\* context.options as the schema admits them: none, {} or { allowIndentationTabs }
TabOptionArrays ==
    {<<>>, << <<>> >>} \cup {<< [allowIndentationTabs |-> b] >> : b \in BOOLEAN}

\* context.options && context.options[0] && context.options[0].allowIndentationTabs
AllowIndentationTabs(opts) ==
    /\ Len(opts) > 0
    /\ "allowIndentationTabs" \in DOMAIN opts[1]
    /\ opts[1].allowIndentationTabs

\* a failed match (exec returns null)
NoMatch == -1

\* match.index of tabRegex.exec(line) started at lastIndex `from`
ExecIndex(line, from) ==
    LET found == {i \in from..(Len(line) - 1) : line[i + 1] = "tab"}
    IN  IF found = {} THEN NoMatch
        ELSE CHOOSE i \in found : \A j \in found : i <= j

\* a variant: the regex matches one tab, not a run
MatchLengthOne(line, index) == 1

\* match[0].length: \t+ is greedy
MatchLength(line, index) ==
    LET stops == {j \in (index + 1)..Len(line) : j = Len(line) \/ line[j + 1] # "tab"}
    IN  (CHOOSE j \in stops : \A k \in stops : j <= k) - index

\* anyNonWhitespaceRegex.test(s)
AnyNonWhitespace(s) == \E i \in 1..Len(s) : ~IsWhitespace(s[i])

\* a variant: only a run at column 0 counts as indentation
SkipsMatchAtLineStart(line, index) ==
    AllowIndentationTabs(tabOptions) /\ index = 0

\* the test that skips a match: the tabs are indentation and allowed
SkipsMatch(line, index) ==
    AllowIndentationTabs(tabOptions) /\ ~AnyNonWhitespace(Slice(line, 0, index))

\* the argument of context.report: no fix is given
TabReport(index, matchIndex, matchLength) ==
    [loc |-> [start |-> [line |-> index + 1, column |-> matchIndex],
              end |-> [line |-> index + 1, column |-> matchIndex + matchLength]],
     messageId |-> "unexpectedTab"]

MainIdle ==
    /\ options = <<>>
    /\ pc = "idle"
    /\ max = 0 /\ maxEOF = 0 /\ maxBOF = 0
    /\ allLines = <<>>
    /\ templateLiteralLines = {}
    /\ visited = 0
    /\ reports = <<>>
    /\ pass = 1
    /\ history = <<>>

TabInit ==
    /\ text \in TextsOver(TabChars)
    /\ tabOptions \in TabOptionArrays
    /\ tpc = "program"
    /\ lineIndex = 0
    /\ lastIndex = 0
    /\ tabReports = <<>>
    /\ MainIdle

\* the line the forEach callback is on
CurrentLine == SourceLines(text)[lineIndex + 1]

InLoop == tpc = "program" /\ lineIndex < Len(SourceLines(text))

\* exec returns null: the while loop ends, forEach moves to the next line
ExecNull ==
    /\ InLoop
    /\ ExecIndex(CurrentLine, lastIndex) = NoMatch
    /\ lastIndex' = 0
    /\ lineIndex' = lineIndex + 1
    /\ UNCHANGED <<text, tabOptions, tpc, tabReports, mainVars>>

\* exec matches a run that the indentation test skips: continue
ExecContinue ==
    /\ InLoop
    /\ LET index == ExecIndex(CurrentLine, lastIndex)
       IN  /\ index # NoMatch
           /\ SkipsMatch(CurrentLine, index)
           /\ lastIndex' = index + MatchLength(CurrentLine, index)
    /\ UNCHANGED <<text, tabOptions, tpc, lineIndex, tabReports, mainVars>>

\* exec matches a run that is reported
ExecReport ==
    /\ InLoop
    /\ LET index == ExecIndex(CurrentLine, lastIndex)
       IN  /\ index # NoMatch
           /\ ~SkipsMatch(CurrentLine, index)
           /\ lastIndex' = index + MatchLength(CurrentLine, index)
           /\ tabReports' = Append(tabReports,
                  TabReport(lineIndex, index, MatchLength(CurrentLine, index)))
    /\ UNCHANGED <<text, tabOptions, tpc, lineIndex, mainVars>>

\* forEach has run out of lines: Program(node) returns
ProgramReturn ==
    /\ tpc = "program"
    /\ lineIndex = Len(SourceLines(text))
    /\ tpc' = "done"
    /\ UNCHANGED <<text, tabOptions, lineIndex, lastIndex, tabReports, mainVars>>

TabNext ==
    \/ ExecNull
    \/ ExecContinue
    \/ ExecReport
    \/ ProgramReturn

TabSpec == TabInit /\ [][TabNext]_vars

(***************************************************************************)
(* What the claims speak of, stated on the raw text                        *)
(***************************************************************************)
EndsWithTerminator(t) == Len(t) > 0 /\ t[Len(t)] = "nl"

NumLines(t) == 1 + Cardinality({i \in 1..Len(t) : t[i] = "nl"})

\* the offset of the first character of line n, for n in 1..NumLines(t)
LineOffset(t, n) ==
    IF n = 1 THEN 0
    ELSE CHOOSE p \in 1..Len(t) :
             t[p] = "nl" /\ Cardinality({i \in 1..p : t[i] = "nl"}) = n - 1

\* line n without its terminator
LineContent(t, n) ==
    SubSeq(t, LineOffset(t, n) + 1,
           IF n < NumLines(t) THEN LineOffset(t, n + 1) - 1 ELSE Len(t))

WhitespaceOnly(t, n) ==
    LET line == LineContent(t, n)
    IN  \A i \in 1..Len(line) : line[i] \in {"sp", "tab"}

\* line n starts inside a template literal
InsideLiteral(t, n) ==
    Cardinality({p \in 1..LineOffset(t, n) : t[p] = "bt"}) % 2 = 1

\* the lines that are checked: all but the empty line after a final terminator
CheckedLines(t) ==
    NumLines(t) - (IF EndsWithTerminator(t) \/ Len(t) = 0 THEN 1 ELSE 0)

Blank(t, n) == WhitespaceOnly(t, n) /\ ~InsideLiteral(t, n)

Markers(t) == {n \in 1..CheckedLines(t) : ~Blank(t, n)}

\* the pairs (previous, current) of the fold
Pairs(t) ==
    LET M == Markers(t)
    IN  {pr \in (M \cup {0}) \X (M \cup {CheckedLines(t) + 1}) :
            /\ pr[1] < pr[2]
            /\ \A m \in M : ~(pr[1] < m /\ m < pr[2])}

ClassOf(t, pr) ==
    IF pr[1] = 0 THEN "blankBeginningOfFile"
    ELSE IF pr[2] = CheckedLines(t) + 1 THEN "blankEndOfFile"
    ELSE "consecutiveBlank"

ThresholdOf(t, pr) ==
    LET class == ClassOf(t, pr)
    IN  CASE class = "blankBeginningOfFile" -> maxBOF
          [] class = "blankEndOfFile" -> maxEOF
          [] OTHER -> max

RunLength(pr) == pr[2] - pr[1] - 1

ReportsFor(pr) == {k \in 1..Len(reports) : reports[k].loc.end.line = pr[2]}

\* the k-th marker, and the k-th run (k = 1 the run at the beginning of file)
NthMarker(t, k) ==
    LET M == Markers(t)
    IN  CHOOSE m \in M : Cardinality({x \in M : x < m}) = k - 1

NthRun(t, k) ==
    LET n == Cardinality(Markers(t))
    IN  << IF k = 1 THEN 0 ELSE NthMarker(t, k - 1),
           IF k = n + 1 THEN CheckedLines(t) + 1 ELSE NthMarker(t, k) >>

AllBlank(t) == \A i \in 1..Len(t) : t[i] \in {"sp", "nl"}

Scanned == pc \in {"traverse", "reported"}

(***************************************************************************)
(* The claims                                                              *)
(***************************************************************************)

\* C1: after the scan, each pair (previous, current) of the fold over the
\* non-blank line numbers and the sentinel has a report if and only if its
\* run is longer than the threshold of its class (maxBOF when previous = 0,
\* else maxEOF when current is the sentinel, else max); it has at most one,
\* carrying the message and the threshold of that class, and nothing else is
\* reported.
C1_Classification ==
    pc = "reported" =>
        LET pairs == Pairs(text)
        IN  /\ \A pr \in pairs :
                  /\ Cardinality(ReportsFor(pr)) =
                         IF RunLength(pr) > ThresholdOf(text, pr) THEN 1 ELSE 0
                  /\ \A k \in ReportsFor(pr) :
                         /\ reports[k].messageId = ClassOf(text, pr)
                         /\ reports[k].data.max = ThresholdOf(text, pr)
            /\ \A k \in 1..Len(reports) :
                  \E pr \in pairs : k \in ReportsFor(pr)

\* a run at the beginning of file is reported under maxBOF while an interior
\* run of the same length is not, under a larger max
C1_Witness ==
    /\ pc = "reported"
    /\ maxBOF < max
    /\ Len(reports) = 1
    /\ reports[1].messageId = "blankBeginningOfFile"
    /\ \E pr \in Pairs(text) :
          /\ ClassOf(text, pr) = "consecutiveBlank"
          /\ RunLength(pr) > maxBOF

\* C2: once the fixes of a scan are applied together and the corrected text
\* is scanned again, the non-blank lines are the same, in the same order,
\* each run holds the lesser of its former length and its threshold (so a
\* reported run lost exactly length - threshold blank lines), and the second
\* scan reports nothing.
C2_FixThenRescan ==
    (pass = 2 /\ pc = "reported") =>
        LET old == history[1].text
            n == Cardinality(Markers(old))
        IN  /\ Cardinality(Markers(text)) = n
            /\ \A k \in 1..n :
                  LineContent(text, NthMarker(text, k)) =
                      LineContent(old, NthMarker(old, k))
            /\ \A k \in 1..(n + 1) :
                  LET run == NthRun(old, k)
                  IN  RunLength(NthRun(text, k)) =
                          Min(RunLength(run), ThresholdOf(old, run))
            /\ Len(history[1].reports) =
                  Cardinality({k \in 1..(n + 1) :
                      LET run == NthRun(old, k)
                      IN  RunLength(run) > ThresholdOf(old, run)})
            /\ reports = <<>>

\* two fixes of one scan were applied together, one of them keeping a line
C2_Witness ==
    /\ pass = 2
    /\ pc = "reported"
    /\ Len(history[1].reports) >= 2
    /\ \E k \in 1..Len(history[1].reports) : history[1].reports[k].data.max = 1

\* C3 as stated: no scan runs unless the caller supplied max.
C3_MaxRequiredAlways ==
    Scanned => (HasOptions(options) /\ "max" \in DOMAIN options[1])

\* C3, amended: an options object without max fails before any scan; with no
\* options object at all the rule scans with max = maxBOF = maxEOF = 2; when
\* max is supplied it is used, and maxBOF and maxEOF are the supplied values,
\* or max when they are not supplied.
C3_Configuration ==
    pc # "config" =>
        /\ (HasOptions(options) /\ "max" \notin DOMAIN options[1]) =>
              /\ pc = "configError"
              /\ visited = 0 /\ reports = <<>> /\ pass = 1
        /\ ~HasOptions(options) =>
              /\ pc # "configError"
              /\ max = 2 /\ maxBOF = 2 /\ maxEOF = 2
        /\ (HasOptions(options) /\ "max" \in DOMAIN options[1]) =>
              /\ pc # "configError"
              /\ max = options[1].max
              /\ maxBOF = IF "maxBOF" \in DOMAIN options[1]
                          THEN options[1].maxBOF ELSE options[1].max
              /\ maxEOF = IF "maxEOF" \in DOMAIN options[1]
                          THEN options[1].maxEOF ELSE options[1].max

\* max is supplied, maxBOF is not and maxEOF differs from max; a scan has run
C3_Witness ==
    /\ pc = "reported"
    /\ HasOptions(options)
    /\ DOMAIN options[1] = {"max", "maxEOF"}
    /\ options[1].max # options[1].maxEOF
    /\ Len(reports) > 0

TabRuns(t) ==
    {<<NumLines(SubSeq(t, 1, p)), p - 1 - LineOffset(t, NumLines(SubSeq(t, 1, p))),
       q - LineOffset(t, NumLines(SubSeq(t, 1, p)))>> :
        <<p, q>> \in {pq \in (1..Len(t)) \X (1..Len(t)) :
            /\ pq[1] <= pq[2]
            /\ \A i \in pq[1]..pq[2] : t[i] = "tab"
            /\ (pq[1] = 1 \/ t[pq[1] - 1] # "tab")
            /\ (pq[2] = Len(t) \/ t[pq[2] + 1] # "tab")}}

\* every character of line run[1] before column run[2] is whitespace
InIndentation(t, run) ==
    \A i \in 1..run[2] : LineContent(t, run[1])[i] \in {"sp", "tab"}

ReportedSpans ==
    {<<tabReports[k].loc.start.line, tabReports[k].loc.start.column,
       tabReports[k].loc.end.column>> : k \in 1..Len(tabReports)}

\* C5: with allowIndentationTabs true, the runs reported are exactly the
\* maximal tab runs that have a non-whitespace character before them on
\* their line, each once; a suppressed run does not end the scan of its line.
C5_IndentationTabs ==
    (tpc = "done" /\ AllowIndentationTabs(tabOptions)) =>
        /\ ReportedSpans = {run \in TabRuns(text) : ~InIndentation(text, run)}
        /\ Len(tabReports) = Cardinality(ReportedSpans)

\* a line with a suppressed run after a space and a reported run after it
C5_Witness ==
    /\ tpc = "done"
    /\ AllowIndentationTabs(tabOptions)
    /\ \E run \in TabRuns(text) : run[2] > 0 /\ InIndentation(text, run)
    /\ \E run \in TabRuns(text), k \in 1..Len(tabReports) :
          /\ InIndentation(text, run)
          /\ tabReports[k].loc.start.line = run[1]
          /\ tabReports[k].loc.start.column > run[2]

\* C6: with allowIndentationTabs false or absent, the reports are exactly
\* the maximal tab runs, one report each, on the run's line from the column
\* of its first tab to that column plus its length, and none has a fix.
C6_OnePerRun ==
    (tpc = "done" /\ ~AllowIndentationTabs(tabOptions)) =>
        /\ ReportedSpans = TabRuns(text)
        /\ Len(tabReports) = Cardinality(TabRuns(text))
        /\ \A k \in 1..Len(tabReports) :
              /\ "fix" \notin DOMAIN tabReports[k]
              /\ tabReports[k].loc.end.line = tabReports[k].loc.start.line
              /\ tabReports[k].loc.end.column > tabReports[k].loc.start.column

\* no options at all; a run of two tabs and another run on the same line
C6_Witness ==
    /\ tpc = "done"
    /\ tabOptions = <<>>
    /\ Len(tabReports) = 2
    /\ tabReports[1].loc.start.line = tabReports[2].loc.start.line
    /\ tabReports[1].loc.end.column - tabReports[1].loc.start.column = 2

\* C7 as stated: one trailing line is dropped exactly when the text ends
\* with a line terminator.
C7_TrimIffTerminator ==
    Scanned =>
        (NumLines(text) - Len(allLines) = IF EndsWithTerminator(text) THEN 1 ELSE 0)

\* C7, amended: one trailing empty line is dropped when the text ends with a
\* line terminator or is empty, and none otherwise; the checked lines are
\* the lines before it, so a terminated text has as many checked lines as
\* terminators; the sentinel of the fold is their count plus one; `a` and
\* one terminator has no run at the end of file, `a` and two have one of 1.
C7_TrailingTerminator ==
    Scanned =>
        /\ NumLines(text) - Len(allLines) =
               IF EndsWithTerminator(text) \/ Len(text) = 0 THEN 1 ELSE 0
        /\ \A n \in 1..Len(allLines) : allLines[n] = LineContent(text, n)
        /\ EndsWithTerminator(text) =>
               Len(allLines) = Cardinality({i \in 1..Len(text) : text[i] = "nl"})
        /\ LET numbers == LineNumbers(allLines, templateLiteralLines)
           IN  numbers[Len(numbers)] = Len(allLines) + 1
        /\ (pc = "reported" /\ text = <<"a", "nl">>) => reports = <<>>
        /\ (pc = "reported" /\ text = <<"a", "nl", "nl">>) =>
               IF maxEOF = 0
               THEN /\ Len(reports) = 1
                    /\ reports[1].messageId = "blankEndOfFile"
                    /\ reports[1].loc.end.line - reports[1].loc.start.line = 1
               ELSE reports = <<>>

\* `a` and two terminators, scanned with maxEOF = 0
C7_Witness ==
    /\ pc = "reported"
    /\ pass = 1
    /\ text = <<"a", "nl", "nl">>
    /\ maxEOF = 0
    /\ Len(reports) = 1

\* C8: both ends of every reported span are on a line of the text, the end
\* is after the start, and the fix range lies within the text.
C8_ValidLocations ==
    pc = "reported" =>
        \A k \in 1..Len(reports) :
            /\ 1 <= reports[k].loc.start.line
            /\ reports[k].loc.start.line <= NumLines(text)
            /\ 1 <= reports[k].loc.end.line
            /\ reports[k].loc.end.line <= NumLines(text)
            /\ reports[k].loc.start.line < reports[k].loc.end.line
            /\ 0 <= reports[k].fix.range[1]
            /\ reports[k].fix.range[1] <= reports[k].fix.range[2]
            /\ reports[k].fix.range[2] <= Len(text)

\* C9 as stated: the fix range begins where the reported span begins, at the
\* start of the first line in excess.
C9_FixStartsAtSpanStart ==
    pc = "reported" =>
        \A k \in 1..Len(reports) :
            /\ reports[k].loc.start.line <= NumLines(text)
            /\ reports[k].fix.range[1] = LineOffset(text, reports[k].loc.start.line)

\* C9, amended: the span of a reported run goes from column 0 of line
\* previous + threshold + 1 to column 0 of line current; the fix removes the
\* text from the start of line previous + 1, the first blank line of the run,
\* to the start of line current - threshold, or to the end of the text when
\* current - threshold is past the last checked line.
C9_SpanAndFixRange ==
    pc = "reported" =>
        \A pr \in Pairs(text) : \A k \in ReportsFor(pr) :
            LET threshold == ThresholdOf(text, pr)
            IN  /\ reports[k].loc.start =
                       [line |-> pr[1] + threshold + 1, column |-> 0]
                /\ reports[k].loc.end = [line |-> pr[2], column |-> 0]
                /\ reports[k].fix.range[1] = LineOffset(text, pr[1] + 1)
                /\ reports[k].fix.range[2] =
                       IF pr[2] - threshold <= CheckedLines(text)
                       THEN LineOffset(text, pr[2] - threshold)
                       ELSE Len(text)
                /\ reports[k].fix.text = <<>>

\* a reported run with a threshold of 1: the span and the fix start apart
C9_Witness ==
    /\ pc = "reported"
    /\ \E k \in 1..Len(reports) :
          /\ reports[k].data.max = 1
          /\ reports[k].messageId = "consecutiveBlank"
          /\ reports[k].fix.range[1] <
                 LineOffset(text, reports[k].loc.start.line)

\* C10: a text with no non-blank line has one run, judged as a run at the
\* beginning of file: it is reported if and only if it is longer than
\* maxBOF, once, as blankBeginningOfFile; after the fix the text has exactly
\* maxBOF blank lines and the second scan reports nothing.
C10_WholeFileBlank ==
    /\ (pc = "reported" /\ pass = 1 /\ AllBlank(text)) =>
          /\ Len(reports) = IF CheckedLines(text) > maxBOF THEN 1 ELSE 0
          /\ \A k \in 1..Len(reports) :
                /\ reports[k].messageId = "blankBeginningOfFile"
                /\ reports[k].data.max = maxBOF
    /\ (pc = "reported" /\ pass = 2 /\ AllBlank(history[1].text)) =>
          /\ AllBlank(text)
          /\ CheckedLines(text) = maxBOF
          /\ reports = <<>>

\* a blank text was fixed down to one line although maxEOF and max are 0
C10_Witness ==
    /\ pc = "reported"
    /\ pass = 2
    /\ AllBlank(history[1].text)
    /\ maxBOF = 1 /\ maxEOF = 0 /\ max = 0
    /\ CheckedLines(text) = 1

====
